---- MODULE Spec2Model ----
(***************************************************************************)
(* Model of src/src/entities.py: Entity / RelationalEntity / Person /      *)
(* Group, the in-memory objects a caller holds, and the rows the Store     *)
(* collaborator (src.io.IOController) keeps for them.                      *)
(*                                                                         *)
(* A string is a sequence of character codes, so that joining ids with the *)
(* delimiter and splitting on it are computed the way the code does.       *)
(***************************************************************************)
EXTENDS Integers, Sequences, FiniteSets, TLC

\* Number of in-memory objects the caller can hold at once.
NumHandles == 3
\* Number of caller-level operations in one run, after the calls that lead
\* to Init.
MaxOps == 3
\* Number of add_to_group calls each concurrent caller makes, one after the
\* other.
MaxCalls == 2

\* The character ';' (its code), the delimiter of the serialized form.
Delim == 59

Handles == 1..NumHandles
Kinds == {"person", "group"}
Names == {"n", "m"}

\* Person.RELATIONSHIP_ATTR / Group.RELATIONSHIP_ATTR
RELATIONSHIP_ATTR(kind) == IF kind = "person" THEN "groups" ELSE "members"

\* The class whose from_store a propagating add calls.
PeerKind(kind) == IF kind = "person" THEN "group" ELSE "person"

(***************************************************************************)
(* Values.                                                                 *)
(*   element of a relationship list: a str, or a reference to an object    *)
(*   argument of add / remove / the constructor: None, a str, an object,   *)
(*   or a list of elements                                                 *)
(***************************************************************************)
StrE(s) == [tag |-> "str", s |-> s, h |-> 0]
ObjE(h) == [tag |-> "obj", s |-> <<>>, h |-> h]

NoneA == [form |-> "none", s |-> <<>>, h |-> 0, l |-> <<>>]
StrA(s) == [form |-> "str", s |-> s, h |-> 0, l |-> <<>>]
ObjA(h) == [form |-> "obj", s |-> <<>>, h |-> h, l |-> <<>>]
ListA(l) == [form |-> "list", s |-> <<>>, h |-> 0, l |-> l]

\* The relationship entry of _attrs: the list object itself (alias), or a
\* value update_attributes put in its place.
AliasV == [alias |-> TRUE, none |-> FALSE, s |-> <<>>]
PlainV(s) == [alias |-> FALSE, none |-> FALSE, s |-> s]
NoneV == [alias |-> FALSE, none |-> TRUE, s |-> <<>>]

\* Entity.ALLOWED_TYPES
ALLOWED_TYPES == {"str", "int", "float", "float64"}

\* One keyword argument of update_attributes: the attribute, the type of
\* the value, and the value (a name, or a string of character codes)
StrKw(attr, s) == [attr |-> attr, type |-> "str", val |-> s, name |-> "n"]
NameKw(n) == [attr |-> "name", type |-> "str", val |-> <<>>, name |-> n]
NoneKw(attr) == [attr |-> attr, type |-> "none", val |-> <<>>, name |-> "n"]

\* The relationship field of a stored row: the null marker, or a string.
NullF == [null |-> TRUE, s |-> <<>>]
StrF(s) == [null |-> FALSE, s |-> s]

NoObject ==
    [used |-> FALSE, kind |-> "person", id0 |-> <<>>,
     attrs |-> [id |-> <<>>, name |-> "n", rel |-> AliasV], rel |-> <<>>]

VARIABLES
    objs,      \* the caller's in-memory objects, by handle
    store,     \* the Store's rows, at most one per (type tag, id)
    nextId,    \* number of ids uuid4 has produced
    nops,      \* number of caller operations so far
    last,      \* the last caller operation: what it was and what it found
    plain,     \* so far the run is constructions and active adds of records
    calls      \* the concurrent callers: where each is inside its add

vars == <<objs, store, nextId, nops, last, plain, calls>>


(***************************************************************************)
(* Strings: str.split(';') and the join of to_df.                          *)
(***************************************************************************)
RECURSIVE split(_)
split(s) ==
    IF \A i \in 1..Len(s) : s[i] # Delim
    THEN <<s>>
    ELSE LET i == CHOOSE k \in 1..Len(s) :
                      s[k] = Delim /\ \A j \in 1..(k - 1) : s[j] # Delim
         IN  <<SubSeq(s, 1, i - 1)>> \o split(SubSeq(s, i + 1, Len(s)))

\* relationship_repr += rel + ';' for every rel of the list
RECURSIVE relationship_repr(_)
relationship_repr(list) ==
    IF list = <<>> THEN <<>>
    ELSE Head(list).s \o <<Delim>> \o relationship_repr(Tail(list))

\* relationship_repr[:-1]
DropLast(s) == IF s = <<>> THEN <<>> ELSE SubSeq(s, 1, Len(s) - 1)

\* rel + ';' is a TypeError for an element that is no str
CanSerialize(list) == \A i \in 1..Len(list) : list[i].tag = "str"

Serialize(list) == DropLast(relationship_repr(list))

\* Entity.attrs: the mapping as == compares it, the relationship entry by
\* the value it holds
attrs(o) ==
    [id |-> o.attrs.id, name |-> o.attrs.name,
     rel |-> IF o.attrs.rel.alias
             THEN [list |-> TRUE, none |-> FALSE, l |-> o.rel, s |-> <<>>]
             ELSE [list |-> FALSE, none |-> o.attrs.rel.none, l |-> <<>>,
                   s |-> o.attrs.rel.s]]

\* The row of an object: one column per attribute, the relationship column
\* replaced by the serialized list.
to_df(o) ==
    [kind |-> o.kind, id |-> o.attrs.id, name |-> o.attrs.name,
     rel |-> Serialize(o.rel)]

(***************************************************************************)
(* RelationalEntity._add                                                   *)
(***************************************************************************)
\* Falsy with only the None test: '' then reaches split
Falsy_NoneOnly(arg) == arg.form = "none"

\* `not relationship`: None, '' and [] are falsy; an object is truthy
Falsy(arg) ==
    \/ arg.form = "none"
    \/ arg.form = "str" /\ arg.s = <<>>
    \/ arg.form = "list" /\ arg.l = <<>>

\* ==, as `in` applies it: str.__eq__, Person.__eq__ / Group.__eq__
PyEq(os, a, b) ==
    IF a.tag = "str" /\ b.tag = "str" THEN a.s = b.s
    ELSE IF a.tag = "obj" /\ b.tag = "obj"
         THEN os[a.h].kind = os[b.h].kind /\ os[a.h].attrs.id = os[b.h].attrs.id
         ELSE FALSE

InList(os, x, list) == \E i \in 1..Len(list) : PyEq(os, x, list[i])

\* The list the loop of _add runs over.
Normalize(os, arg) ==
    IF Falsy(arg) THEN <<>>
    ELSE IF arg.form = "str"
         THEN LET parts == split(arg.s)
              IN  [i \in 1..Len(parts) |-> StrE(parts[i])]
    ELSE IF arg.form = "obj"
         THEN <<StrE(os[arg.h].attrs.id)>>
    ELSE IF \A i \in 1..Len(arg.l) : arg.l[i].tag = "obj"
         THEN [i \in 1..Len(arg.l) |-> StrE(os[arg.l[i].h].attrs.id)]
         ELSE arg.l  \* AttributeError on a str element: the list stays as passed

\* The loop of _add without its membership test
AppendAlways(os, list, new) == list \o new

RECURSIVE AppendUnique(_, _, _)
AppendUnique(os, list, new) ==
    IF new = <<>> THEN list
    ELSE AppendUnique(os,
                      IF InList(os, Head(new), list) THEN list
                      ELSE Append(list, Head(new)),
                      Tail(new))

_add(os, list, arg) == AppendUnique(os, list, Normalize(os, arg))

(***************************************************************************)
(* The Store collaborator: persist, overwrite, fetch.                      *)
(***************************************************************************)
HasRow(st, kind, id) == \E r \in st : r.kind = kind /\ r.id = id

RowOf(st, kind, id) == CHOOSE r \in st : r.kind = kind /\ r.id = id

Put(st, row) == {r \in st : ~(r.kind = row.kind /\ r.id = row.id)} \cup {row}

\* IOController().store(entity)
persist(st, row) ==
    [store |-> Put(st, row), raised |-> FALSE,
     log |-> <<[call |-> "persist", kind |-> row.kind, id |-> row.id]>>]

\* IOController().update(entity); u is what the Store does when the row is
\* missing
overwrite(st, row, u) ==
    [store |-> IF HasRow(st, row.kind, row.id) \/ u = "insert"
               THEN Put(st, row) ELSE st,
     raised |-> ~HasRow(st, row.kind, row.id) /\ u = "raise",
     log |-> <<[call |-> "overwrite", kind |-> row.kind, id |-> row.id]>>]

\* IOController().retrieve_by_id(type, id), for a row the Store has
fetch(st, kind, id, nr) ==
    LET r == RowOf(st, kind, id)
    IN  [id |-> r.id, name |-> r.name,
         rel |-> IF r.rel = <<>> /\ nr = "null" THEN NullF ELSE StrF(r.rel)]

\* overwrite of a row the Store does not have is undefined: the Store may
\* insert it, ignore the call, or raise
UndefinedOutcomes == {"insert", "noop", "raise"}

\* The marker fetch hands back for a row without relationships
NullRepr == "null"

(***************************************************************************)
(* Operations on one object. Each yields the object, the Store's rows, the *)
(* Store calls it made and whether it raised.                              *)
(***************************************************************************)
Result(o, st, log, raised) ==
    [obj |-> o, store |-> st, log |-> log, raised |-> raised]

\* Entity.store: IOController().store(self), which takes the row of to_df
Entity_store(o, st) ==
    IF ~CanSerialize(o.rel) THEN Result(o, st, <<>>, TRUE)
    ELSE LET w == persist(st, to_df(o))
         IN  Result(o, w.store, w.log, w.raised)

\* Entity.update_in_store
update_in_store(o, st, u) ==
    IF ~CanSerialize(o.rel) THEN Result(o, st, <<>>, TRUE)
    ELSE LET w == overwrite(st, to_df(o), u)
         IN  Result(o, w.store, w.log, w.raised)

\* A constructor that stores before it builds the relationship list
init_store_first(os, st, kind, id, name, relArg, storeFlag) ==
    LET o == [used |-> TRUE, kind |-> kind, id0 |-> id,
              attrs |-> [id |-> id, name |-> name, rel |-> AliasV],
              rel |-> <<>>]
        r == IF storeFlag THEN Entity_store(o, st) ELSE Result(o, st, <<>>, FALSE)
    IN  [r EXCEPT !.obj.rel = _add(os, <<>>, relArg)]

\* Person.__init__ / Group.__init__ over RelationalEntity.__init__ and
\* Entity.__init__: the attributes, the relationship list, then the store
\* flag of the concrete class.
init(os, st, kind, id, name, relArg, storeFlag) ==
    LET o == [used |-> TRUE, kind |-> kind, id0 |-> id,
              attrs |-> [id |-> id, name |-> name, rel |-> AliasV],
              rel |-> _add(os, <<>>, relArg)]
    IN  IF storeFlag THEN Entity_store(o, st) ELSE Result(o, st, <<>>, FALSE)

\* RelationalEntity.from_store: cls(**dct) runs the constructor with its
\* default store flag
from_store(os, st, kind, id, nr) ==
    IF ~HasRow(st, kind, id) THEN Result(NoObject, st, <<>>, TRUE)
    ELSE LET dct == fetch(st, kind, id, nr)
             relArg == IF dct.rel.null THEN NoneA ELSE StrA(dct.rel.s)
         IN  init(os, st, kind, dct.id, dct.name, relArg, TRUE)

\* add_relationships without its update_in_store
add_relationships_unsaved(os, o, arg, st, u) ==
    Result([o EXCEPT !.rel = _add(os, o.rel, arg)], st, <<>>, FALSE)

\* RelationalEntity.add_relationships
add_relationships(os, o, arg, st, u) ==
    update_in_store([o EXCEPT !.rel = _add(os, o.rel, arg)], st, u)

\* list.remove(x): the first element equal to x goes
RECURSIVE ListRemove(_, _, _)
ListRemove(os, list, x) ==
    IF list = <<>> THEN <<>>
    ELSE IF PyEq(os, x, Head(list)) THEN Tail(list)
         ELSE <<Head(list)>> \o ListRemove(os, Tail(list), x)

\* The value `relationship in self._relationship_list` tests: the branch
\* `type(relationship) is Entity` is taken by no Person and no Group.
RemoveKey(arg) == IF arg.form = "obj" THEN ObjE(arg.h) ELSE StrE(arg.s)

\* remove_relationship without its membership assertion
remove_relationship_silent(os, o, arg, st, u) ==
    update_in_store([o EXCEPT !.rel = ListRemove(os, o.rel, RemoveKey(arg))],
                    st, u)

\* RelationalEntity.remove_relationship
remove_relationship(os, o, arg, st, u) ==
    IF ~InList(os, RemoveKey(arg), o.rel) THEN Result(o, st, <<>>, TRUE)
    ELSE update_in_store([o EXCEPT !.rel = ListRemove(os, o.rel, RemoveKey(arg))],
                         st, u)

\* The loop of Person.add_to_group / Group.add_member over the caller's own
\* list: load each peer, add self to it without propagation.
RECURSIVE propagate(_, _, _, _, _, _, _)
propagate(os, h, ids, st, log, u, nr) ==
    IF ids = <<>> THEN Result(os[h], st, log, FALSE)
    ELSE IF Head(ids).tag # "str" THEN Result(os[h], st, log, TRUE)
    ELSE LET ld == from_store(os, st, PeerKind(os[h].kind), Head(ids).s, nr)
         IN  IF ld.raised THEN Result(os[h], ld.store, log \o ld.log, TRUE)
             ELSE LET ar == add_relationships(os, ld.obj, ObjA(h), ld.store, u)
                  IN  IF ar.raised
                      THEN Result(os[h], ar.store, log \o ld.log \o ar.log, TRUE)
                      ELSE propagate(os, h, Tail(ids), ar.store,
                                     log \o ld.log \o ar.log, u, nr)

\* add_to_group / add_member whose loop runs over the argument's ids only
add_to_new_only(os, h, arg, establish_connection, st, u, nr) ==
    LET own == add_relationships(os, os[h], arg, st, u)
    IN  IF own.raised \/ ~establish_connection THEN own
        ELSE propagate([os EXCEPT ![h] = own.obj], h, Normalize(os, arg),
                       own.store, own.log, u, nr)

\* add_to_group / add_member that propagates whatever the flag says
add_to_flag_ignored(os, h, arg, establish_connection, st, u, nr) ==
    LET own == add_relationships(os, os[h], arg, st, u)
    IN  IF own.raised THEN own
        ELSE propagate([os EXCEPT ![h] = own.obj], h, own.obj.rel, own.store,
                       own.log, u, nr)

\* add_to_group / add_member that changes the list and writes no row
add_to_unsaved(os, h, arg, establish_connection, st, u, nr) ==
    add_relationships_unsaved(os, os[h], arg, st, u)

\* add_to_group / add_member without the loop over the peers
add_to_unpropagated(os, h, arg, establish_connection, st, u, nr) ==
    add_relationships(os, os[h], arg, st, u)

\* Person.add_to_group / Group.add_member on the object at handle h
add_to(os, h, arg, establish_connection, st, u, nr) ==
    LET own == add_relationships(os, os[h], arg, st, u)
        os2 == [os EXCEPT ![h] = own.obj]
    IN  IF own.raised \/ ~establish_connection THEN own
        ELSE propagate(os2, h, own.obj.rel, own.store, own.log, u, nr)

\* refresh without the assignment of the relationship list
refresh_attrs_only(os, h, st, nr) ==
    LET ld == from_store(os, st, os[h].kind, os[h].attrs.id, nr)
    IN  IF ld.raised THEN Result(os[h], ld.store, ld.log, TRUE)
        ELSE Result([os[h] EXCEPT !.attrs = ld.obj.attrs],
                    ld.store, ld.log, FALSE)

\* Person.refresh / Group.refresh
refresh(os, h, st, nr) ==
    LET ld == from_store(os, st, os[h].kind, os[h].attrs.id, nr)
    IN  IF ld.raised THEN Result(os[h], ld.store, ld.log, TRUE)
        ELSE Result([os[h] EXCEPT !.rel = ld.obj.rel, !.attrs = ld.obj.attrs],
                    ld.store, ld.log, FALSE)

\* RelationalEntity._check_args: no keyword raises TypeError
_check_args(kind, kwargs) ==
    \A i \in 1..Len(kwargs) :
        \/ kwargs[i].attr = RELATIONSHIP_ATTR(kind)
              /\ kwargs[i].type \in {"none", "list"}
        \/ kwargs[i].type \in ALLOWED_TYPES

\* self._attrs.update(kwargs)
RECURSIVE Merge(_, _)
Merge(o, kwargs) ==
    IF kwargs = <<>> THEN o
    ELSE LET kw == Head(kwargs)
         IN  Merge(IF kw.attr = "id" THEN [o EXCEPT !.attrs.id = kw.val]
                   ELSE IF kw.attr = "name" THEN [o EXCEPT !.attrs.name = kw.name]
                   ELSE [o EXCEPT !.attrs.rel =
                                    IF kw.type = "none" THEN NoneV
                                    ELSE PlainV(kw.val)],
                   Tail(kwargs))

\* Entity.update_attributes
update_attributes(o, kwargs, st, u) ==
    IF ~_check_args(o.kind, kwargs) THEN Result(o, st, <<>>, TRUE)
    ELSE update_in_store(Merge(o, kwargs), st, u)

(***************************************************************************)
(* The caller: what it can pass, and one action per public operation.      *)
(***************************************************************************)
Used(kind) == {h \in Handles : objs[h].used /\ objs[h].kind = kind}

AllUsed == Used("person") \cup Used("group")

Free == {h \in Handles : ~objs[h].used}

FirstFree == CHOOSE f \in Free : \A g \in Free : f <= g

Peers(kind) == Used(PeerKind(kind))

IdOf(h) == objs[h].attrs.id

\* The ids uuid4 has produced: <<1>>, <<2>>, ...
KnownIds == {<<i>> : i \in 1..nextId}

Joined(i, j) == i \o <<Delim>> \o j

\* What add_to_group / add_member is called with: nothing, a record, a
\* delimited string, a list of records, of raw ids, or of both
AddArgs(kind) ==
    {NoneA}
        \cup {ObjA(p) : p \in Peers(kind)}
        \cup {StrA(Joined(IdOf(p), IdOf(q))) : p, q \in Peers(kind)}
        \cup {ListA(<<ObjE(p)>>) : p \in Peers(kind)}
        \cup {ListA(<<StrE(IdOf(p))>>) : p \in Peers(kind)}
        \cup {ListA(<<ObjE(p), StrE(IdOf(q))>>) : p, q \in Peers(kind)}
        \cup {ListA(<<StrE(IdOf(q)), ObjE(p)>>) : p, q \in Peers(kind)}

\* The relationship keyword of a constructor: _check_args lets None, a list
\* and a str through
InitArgs(kind) ==
    {NoneA}
        \cup {StrA(Joined(IdOf(p), IdOf(p))) : p \in Peers(kind)}
        \cup {ListA(<<ObjE(p)>>) : p \in Peers(kind)}
        \cup {ListA(<<ObjE(p), StrE(IdOf(p))>>) : p \in Peers(kind)}

RemoveArgs(kind) ==
    {ObjA(p) : p \in Peers(kind)} \cup {StrA(IdOf(p)) : p \in Peers(kind)}

\* The outcomes of an overwrite of the row (kind, id)
Outcomes(kind, id) ==
    IF HasRow(store, kind, id) THEN {"insert"} ELSE UndefinedOutcomes

NoCall ==
    [op |-> "none", h |-> 0, arg |-> NoneA, establish |-> FALSE,
     raised |-> FALSE]

NoLast ==
    [op |-> "none", h |-> 0, arg |-> NoneA, establish |-> FALSE,
     raised |-> FALSE, log |-> <<>>, objs |-> <<>>, store |-> {},
     prev |-> NoCall, kwargs |-> <<>>]

\* The call an operation record is of
CallOf(l) ==
    [op |-> l.op, h |-> l.h, arg |-> l.arg, establish |-> l.establish,
     raised |-> l.raised]

\* A construction with the store flag on and no relationships, or an active
\* add of one record, that returned
PlainCall(op, arg, establish, raised) ==
    /\ ~raised
    /\ establish
    /\ \/ op = "new" /\ arg = NoneA
       \/ op \in {"add_to_group", "add_member"} /\ arg.form = "obj"

\* alice = Person(name='n'); eng = Group(name='n')
Alice == init(<<>>, {}, "person", <<1>>, "n", NoneA, TRUE)

Eng == init(<<>>, Alice.store, "group", <<2>>, "n", NoneA, TRUE)

Constructed ==
    [h \in Handles |->
        IF h = 1 THEN Alice.obj ELSE IF h = 2 THEN Eng.obj ELSE NoObject]

\* alice.add_to_group(eng)
AliceJoined == add_to(Constructed, 1, ObjA(2), TRUE, Eng.store, "insert", NullRepr)

\* eng.refresh()
EngRefreshed ==
    refresh([Constructed EXCEPT ![1] = AliceJoined.obj], 2, AliceJoined.store,
            NullRepr)

\* The caller has constructed alice and eng
InitConstructed ==
    /\ objs = Constructed
    /\ store = Eng.store
    /\ plain = TRUE

\* The caller has constructed alice and eng, joined them and refreshed eng
InitLinked ==
    /\ objs = [Constructed EXCEPT ![1] = AliceJoined.obj, ![2] = EngRefreshed.obj]
    /\ store = EngRefreshed.store
    /\ plain = FALSE

Init ==
    /\ InitConstructed \/ InitLinked
    /\ nextId = 2
    /\ nops = 0
    /\ last = NoLast
    /\ calls = <<>>

\* What an operation leaves behind: the object at h, the rows, and the
\* record of the call with the state it started from. The record's flag
\* is establish_connection for an add and the store flag for a constructor;
\* kwargs are the keyword arguments of an update_attributes.
FinishKw(op, h, arg, establish, kwargs, res) ==
    \E r \in {res} :
        /\ objs' = [objs EXCEPT ![h] = r.obj]
        /\ store' = r.store
        /\ nops' = nops + 1
        /\ last' = [op |-> op, h |-> h, arg |-> arg, establish |-> establish,
                    raised |-> r.raised, log |-> r.log, objs |-> objs,
                    store |-> store, prev |-> CallOf(last), kwargs |-> kwargs]
        /\ plain' = (plain /\ PlainCall(op, arg, establish, r.raised))
        /\ UNCHANGED calls

Finish(op, h, arg, establish, res) == FinishKw(op, h, arg, establish, <<>>, res)

\* Person(store=storeFlag, name='n', groups=arg) /
\* Group(store=storeFlag, name='n', members=arg); a constructor that raises
\* hands the caller no object
New(kind) ==
    \E storeFlag \in BOOLEAN, arg \in InitArgs(kind) :
        /\ nops < MaxOps
        /\ Free # {}
        /\ LET r == init(objs, store, kind, <<nextId + 1>>, "n", arg, storeFlag)
           IN  Finish("new", FirstFree, arg, storeFlag,
                      IF r.raised THEN [r EXCEPT !.obj = NoObject] ELSE r)
        /\ nextId' = nextId + 1

NewPerson == New("person")

NewGroup == New("group")

\* Person.from_store(id) / Group.from_store(id) for a row of the Store
Load(kind) ==
    \E row \in {r \in store : r.kind = kind} :
        /\ nops < MaxOps
        /\ Free # {}
        /\ Finish("load", FirstFree, StrA(row.id), FALSE,
                  from_store(objs, store, kind, row.id, NullRepr))
        /\ UNCHANGED nextId

LoadPerson == Load("person")

LoadGroup == Load("group")

\* Called actively with any argument; called with the flag off the way the
\* code itself does, with a record
AddTo(kind, op) ==
    \E h \in Used(kind), ec \in BOOLEAN :
        \E arg \in IF ec THEN AddArgs(kind) ELSE {ObjA(p) : p \in Peers(kind)} :
          \E u \in Outcomes(kind, IdOf(h)) :
            /\ nops < MaxOps
            /\ Finish(op, h, arg, ec, add_to(objs, h, arg, ec, store, u, NullRepr))
            /\ UNCHANGED nextId

AddToGroup == AddTo("person", "add_to_group")

AddMember == AddTo("group", "add_member")

Remove(kind, op) ==
    \E h \in Used(kind), arg \in RemoveArgs(kind) :
      \E u \in Outcomes(kind, IdOf(h)) :
        /\ nops < MaxOps
        /\ Finish(op, h, arg, FALSE,
                  remove_relationship(objs, objs[h], arg, store, u))
        /\ UNCHANGED nextId

RemoveFromGroup == Remove("person", "remove_from_group")

RemoveMember == Remove("group", "remove_member")

Refresh ==
    \E h \in AllUsed :
        /\ nops < MaxOps
        /\ Finish("refresh", h, NoneA, FALSE, refresh(objs, h, store, NullRepr))
        /\ UNCHANGED nextId

\* The ids of the caller's other objects
OtherIds(h) == {IdOf(g) : g \in AllUsed \ {h}} \ {IdOf(h)}

\* update_attributes(id=...), (name='m'), (groups=''), (groups=None),
\* (name=None), (name='m', id=None), (name='m', groups=None); members for
\* groups on a Group
UpdateArgs(h) ==
    {<<StrKw("id", i)>> : i \in OtherIds(h)}
        \cup {<<NameKw("m")>>,
              <<StrKw(RELATIONSHIP_ATTR(objs[h].kind), <<>>)>>,
              <<NoneKw(RELATIONSHIP_ATTR(objs[h].kind))>>,
              <<NoneKw("name")>>,
              <<NameKw("m"), NoneKw("id")>>,
              <<NameKw("m"), NoneKw(RELATIONSHIP_ATTR(objs[h].kind))>>}

\* The id update_in_store writes under
IdAfter(h, kwargs) ==
    IF _check_args(objs[h].kind, kwargs) THEN Merge(objs[h], kwargs).attrs.id
    ELSE IdOf(h)

UpdateAttributes ==
    \E h \in AllUsed :
        \E kwargs \in UpdateArgs(h) :
            \E u \in Outcomes(objs[h].kind, IdAfter(h, kwargs)) :
                /\ nops < MaxOps
                /\ FinishKw("update_attributes", h, NoneA, FALSE, kwargs,
                            update_attributes(objs[h], kwargs, store, u))
                /\ UNCHANGED nextId

Next ==
    \/ NewPerson
    \/ NewGroup
    \/ LoadPerson
    \/ LoadGroup
    \/ AddToGroup
    \/ AddMember
    \/ RemoveFromGroup
    \/ RemoveMember
    \/ Refresh
    \/ UpdateAttributes

Spec == Init /\ [][Next]_vars

TypeOK == nops \in 0..MaxOps

(***************************************************************************)
(* Vocabulary of the properties.                                           *)
(***************************************************************************)
AddOps == {"add_to_group", "add_member"}

RemoveOps == {"remove_from_group", "remove_member"}

\* The list holds the id
Has(list, id) == \E i \in 1..Len(list) : list[i] = StrE(id)

Count(list, id) == Cardinality({i \in 1..Len(list) : list[i] = StrE(id)})

\* The ids a stored relationship field stands for
RowIds(field) ==
    IF field = <<>> THEN {} ELSE {split(field)[i] : i \in 1..Len(split(field))}

\* The object the last operation acted on, before and after it
Before == last.objs[last.h]

After == objs[last.h]

(***************************************************************************)
(* Concurrent callers. Each caller holds its own Person and runs           *)
(* add_to_group(eng); every Store call is one atomic step and nothing      *)
(* holds the Store between the steps. A caller may stop for good between   *)
(* two Store calls of its add.                                             *)
(***************************************************************************)
Threads == {1, 2}

\* bob = Person(name='n')
Bob == init(<<>>, Eng.store, "person", <<3>>, "n", NoneA, TRUE)

\* The Person a caller works on, and the Group it passes
CallerHandle(t) == IF t = 1 THEN 1 ELSE 3

GroupHandle == 2

NoDct == [id |-> <<>>, name |-> "n", rel |-> NullF]

NoRow == [kind |-> "group", id |-> <<>>, name |-> "n", rel |-> <<>>]

Idle(n, c) ==
    [pc |-> "idle", ncalls |-> n, todo |-> <<>>, dct |-> NoDct,
     peer |-> NoObject, seen |-> NoRow, log |-> <<>>, clobbered |-> c,
     open |-> FALSE]

InitConcurrent ==
    /\ objs = [h \in Handles |->
                 IF h = 1 THEN Alice.obj ELSE IF h = 2 THEN Eng.obj ELSE Bob.obj]
    /\ store = Bob.store
    /\ nextId = 3
    /\ nops = 0
    /\ last = NoLast
    /\ plain = TRUE
    /\ calls = [t \in Threads |-> Idle(0, FALSE)]

\* The stored rows say: the caller's Person is in the Group, the Group does
\* not list the Person
HalfLinked(st, t) ==
    /\ IdOf(GroupHandle) \in RowIds(RowOf(st, "person", IdOf(CallerHandle(t))).rel)
    /\ IdOf(CallerHandle(t)) \notin RowIds(RowOf(st, "group", IdOf(GroupHandle)).rel)

\* Where the call goes after a peer is done, or after the own write
Advance(c, todo, log) ==
    IF todo = <<>>
    THEN [Idle(c.ncalls + 1, c.clobbered) EXCEPT !.log = log]
    ELSE [c EXCEPT !.pc = "fetch", !.todo = todo, !.log = log]

\* add_to_group that changes its list and goes to the peers without the
\* write of its own row
StartAdd_unwritten(t) ==
    /\ calls[t].pc = "idle"
    /\ calls[t].ncalls < MaxCalls
    /\ LET own == add_relationships_unsaved(objs, objs[CallerHandle(t)],
                                            ObjA(GroupHandle), store, "insert")
       IN  /\ objs' = [objs EXCEPT ![CallerHandle(t)] = own.obj]
           /\ calls' = [calls EXCEPT ![t] = Advance(@, own.obj.rel, own.log)]
    /\ UNCHANGED <<store, nextId, nops, last, plain>>

\* self.add_relationships(group): _add and the overwrite of the own row
StartAdd(t) ==
    /\ calls[t].pc = "idle"
    /\ calls[t].ncalls < MaxCalls
    /\ LET own == add_relationships(objs, objs[CallerHandle(t)],
                                    ObjA(GroupHandle), store, "insert")
       IN  /\ objs' = [objs EXCEPT ![CallerHandle(t)] = own.obj]
           /\ store' = own.store
           /\ calls' = [calls EXCEPT ![t] = Advance(@, own.obj.rel, own.log)]
    /\ UNCHANGED <<nextId, nops, last, plain>>

\* Group.from_store(g), first half: IOController().retrieve_by_id
FetchPeer(t) ==
    /\ calls[t].pc = "fetch"
    /\ HasRow(store, "group", Head(calls[t].todo).s)
    /\ calls' = [calls EXCEPT
                   ![t].pc = "construct",
                   ![t].dct = fetch(store, "group", Head(calls[t].todo).s, NullRepr),
                   ![t].seen = RowOf(store, "group", Head(calls[t].todo).s),
                   ![t].log = Append(@, [call |-> "fetch", kind |-> "group",
                                         id |-> Head(calls[t].todo).s])]
    /\ UNCHANGED <<objs, store, nextId, nops, last, plain>>

\* Group.from_store(g), second half: cls(**dct), which persists
ConstructPeer(t) ==
    /\ calls[t].pc = "construct"
    /\ LET dct == calls[t].dct
           ld == init(objs, store, "group", dct.id, dct.name,
                      IF dct.rel.null THEN NoneA ELSE StrA(dct.rel.s), TRUE)
       IN  /\ store' = ld.store
           /\ calls' = [calls EXCEPT
                          ![t].pc = "passive",
                          ![t].peer = ld.obj,
                          ![t].seen = to_df(ld.obj),
                          ![t].clobbered =
                              @ \/ RowOf(store, "group", dct.id) # calls[t].seen,
                          ![t].log = @ \o ld.log]
    /\ UNCHANGED <<objs, nextId, nops, last, plain>>

\* .add_member(self, establish_connection=False) on the loaded Group
PassiveAdd(t) ==
    /\ calls[t].pc = "passive"
    /\ LET ar == add_to([objs EXCEPT ![GroupHandle] = calls[t].peer], GroupHandle,
                        ObjA(CallerHandle(t)), FALSE, store, "insert", NullRepr)
           c == [calls[t] EXCEPT
                    !.clobbered =
                        @ \/ RowOf(store, "group", calls[t].peer.attrs.id)
                                # calls[t].seen]
       IN  /\ store' = ar.store
           /\ calls' = [calls EXCEPT
                          ![t] = Advance(c, Tail(c.todo), c.log \o ar.log)]
    /\ UNCHANGED <<objs, nextId, nops, last, plain>>

\* The caller stops between two Store calls of its add and never resumes
Crash(t) ==
    /\ calls[t].pc \in {"fetch", "construct", "passive"}
    /\ calls' = [calls EXCEPT ![t].pc = "crashed",
                              ![t].open = HalfLinked(store, t)]
    /\ UNCHANGED <<objs, store, nextId, nops, last, plain>>

Step(t) == StartAdd(t) \/ FetchPeer(t) \/ ConstructPeer(t) \/ PassiveAdd(t)

NextConcurrent == \E t \in Threads : Step(t) \/ Crash(t)

SpecConcurrent == InitConcurrent /\ [][NextConcurrent]_vars

(***************************************************************************)
(* C1. After P.add_to_group(G) has returned and G.refresh() has then been  *)
(* called, G.members holds P.id and P.groups holds G.id; the same for      *)
(* G.add_member(P) followed by P.refresh().                                *)
(***************************************************************************)
RefreshAfterActiveAdd ==
    /\ last.op = "refresh"
    /\ last.prev.op \in AddOps
    /\ last.prev.establish
    /\ ~last.prev.raised
    /\ last.prev.arg.form = "obj"
    /\ last.prev.arg.h = last.h

C1_BidirectionalAfterRefresh ==
    RefreshAfterActiveAdd =>
        /\ ~last.raised
        /\ Has(objs[last.h].rel, IdOf(last.prev.h))
        /\ Has(objs[last.prev.h].rel, IdOf(last.h))

\* The refresh is what brought the initiator's id into the peer object.
C1_Witness ==
    /\ RefreshAfterActiveAdd
    /\ ~last.raised
    /\ ~Has(Before.rel, IdOf(last.prev.h))
    /\ Has(After.rel, IdOf(last.prev.h))
    /\ Has(objs[last.prev.h].rel, IdOf(last.h))

(***************************************************************************)
(* C2. In a run of constructions and active adds only, the stored rows are *)
(* mirror images after every operation: P's stored groups holds G's id if  *)
(* and only if G's stored members holds P's id.                            *)
(***************************************************************************)
Mirror(st) ==
    \A p \in {r \in st : r.kind = "person"}, g \in {r \in st : r.kind = "group"} :
        (g.id \in RowIds(p.rel)) <=> (p.id \in RowIds(g.rel))

C2_MirrorUnderActiveAdds == plain => Mirror(store)

(***************************************************************************)
(* C3. Adding a peer id twice leaves one occurrence of it, at the place of *)
(* its first insertion, the other entries in their order; no relationship  *)
(* list of any object ever holds an id twice.                              *)
(***************************************************************************)
NoDuplicateIds ==
    \A h \in AllUsed :
        \A i, j \in 1..Len(objs[h].rel) :
            (i # j /\ objs[h].rel[i].tag = "str" /\ objs[h].rel[j].tag = "str")
                => objs[h].rel[i].s # objs[h].rel[j].s

\* _add of x, then of x again, on the list of the object at h
AddTwice(h, x) ==
    LET list == objs[h].rel
        once == _add(objs, list, StrA(x))
        twice == _add(objs, once, StrA(x))
    IN  /\ twice = once
        /\ Count(twice, x) = 1
        /\ once = IF Has(list, x) THEN list ELSE Append(list, StrE(x))

\* The last two operations added the same record to the same object
SameAddTwice ==
    /\ last.op \in AddOps
    /\ last.arg.form = "obj"
    /\ last.prev.op = last.op
    /\ last.prev.h = last.h
    /\ last.prev.arg = last.arg

C3_IdempotentAdd ==
    /\ NoDuplicateIds
    /\ \A h \in AllUsed : \A x \in KnownIds : AddTwice(h, x)
    /\ SameAddTwice =>
          /\ After.rel = Before.rel
          /\ Count(After.rel, IdOf(last.arg.h)) = 1

C3_Witness ==
    /\ SameAddTwice
    /\ ~last.raised
    /\ Count(After.rel, IdOf(last.arg.h)) = 1

(***************************************************************************)
(* C4. Removing an id the list does not hold raises, leaves the list and   *)
(* the attributes of the object as they were, and writes nothing to the    *)
(* Store.                                                                  *)
(***************************************************************************)
RemoveOfAbsentId ==
    /\ last.op \in RemoveOps
    /\ last.arg.form = "str"
    /\ ~Has(Before.rel, last.arg.s)

C4_RemoveAbsentRaises ==
    RemoveOfAbsentId =>
        /\ last.raised
        /\ After = Before
        /\ last.log = <<>>
        /\ store = last.store

\* The id is absent from a list that holds another id.
C4_Witness ==
    /\ RemoveOfAbsentId
    /\ Before.rel # <<>>
    /\ last.raised

(***************************************************************************)
(* C5. remove_from_group / remove_member called with a peer record whose   *)
(* id is in the list removes that id, keeps the other entries in order and *)
(* persists, as when called with the id itself.                            *)
(***************************************************************************)
RemoveByRecord ==
    /\ last.op \in RemoveOps
    /\ last.arg.form = "obj"
    /\ Has(Before.rel, last.objs[last.arg.h].attrs.id)
    /\ CanSerialize(Before.rel)
    /\ HasRow(last.store, Before.kind, Before.attrs.id)

C5_RemoveByRecord ==
    RemoveByRecord =>
        LET byId == remove_relationship(last.objs, Before,
                                        StrA(last.objs[last.arg.h].attrs.id),
                                        last.store, "insert")
        IN  /\ ~last.raised
            /\ After = byId.obj
            /\ store = byId.store

(***************************************************************************)
(* C6. P.remove_from_group(G.id) with G.id in P.groups takes G.id out of   *)
(* P's list and of P's stored row and leaves the stored rows of the groups *)
(* as they were; the same for G.remove_member.                             *)
(***************************************************************************)
RemoveOfPresentId ==
    /\ last.op \in RemoveOps
    /\ last.arg.form = "str"
    /\ Has(Before.rel, last.arg.s)
    /\ HasRow(last.store, Before.kind, Before.attrs.id)

PeerRowsUnchanged ==
    {r \in store : r.kind = PeerKind(Before.kind)}
        = {r \in last.store : r.kind = PeerKind(Before.kind)}

C6_RemoveOneSided ==
    RemoveOfPresentId =>
        /\ ~Has(After.rel, last.arg.s)
        /\ HasRow(store, After.kind, After.attrs.id)
        /\ last.arg.s \notin RowIds(RowOf(store, After.kind, After.attrs.id).rel)
        /\ PeerRowsUnchanged

(***************************************************************************)
(* C7. Person.from_store / Group.from_store, and so refresh, make no       *)
(* persist and no overwrite call; the rows of the Store are as before.     *)
(***************************************************************************)
C7_LoadDoesNotWrite ==
    (last.op \in {"load", "refresh"}) => (last.log = <<>> /\ store = last.store)

(***************************************************************************)
(* C8. Adding a list that mixes peer records and raw ids leaves only id    *)
(* strings in the relationship list: no record is stored as an element.    *)
(***************************************************************************)
C8_OnlyIdsInList == \A h \in AllUsed : CanSerialize(objs[h].rel)

(***************************************************************************)
(* C9. The id of an object is the one it had when its construction ended,  *)
(* whatever update_attributes, add, remove and refresh calls followed.     *)
(***************************************************************************)
C9_IdImmutable == \A h \in AllUsed : IdOf(h) = objs[h].id0

(***************************************************************************)
(* C10. An object with an empty relationship list serializes to a row      *)
(* whose relationship field is the empty string; loading a row whose field *)
(* comes back as the null marker, or as the empty string, gives an empty   *)
(* list, not a list holding one empty id.                                  *)
(***************************************************************************)
C10_EmptyRoundTrip ==
    /\ \A h \in AllUsed :
          objs[h].rel = <<>> => to_df(objs[h]).rel = <<>>
    /\ \A r \in store :
          r.rel = <<>> =>
              \A nr \in {"null", "empty"} :
                  /\ fetch(store, r.kind, r.id, nr).rel
                        = IF nr = "null" THEN NullF ELSE StrF(<<>>)
                  /\ from_store(objs, store, r.kind, r.id, nr).obj.rel = <<>>

\* An object with an empty list was loaded from a row with an empty field.
C10_Witness ==
    /\ last.op \in {"load", "refresh"}
    /\ ~last.raised
    /\ After.rel = <<>>
    /\ RowOf(last.store, After.kind, After.attrs.id).rel = <<>>

(***************************************************************************)
(* C11. Saving a record whose relationship ids are non-empty strings       *)
(* without the delimiter and loading it by type tag and id gives an        *)
(* attribute mapping equal to the original, the relationship ids the same  *)
(* and in the same order.                                                  *)
(***************************************************************************)
\* Every element is a non-empty str without ';'
ValidIds(list) ==
    \A i \in 1..Len(list) :
        /\ list[i].tag = "str"
        /\ list[i].s # <<>>
        /\ \A k \in 1..Len(list[i].s) : list[i].s[k] # Delim

\* store() of the object, then from_store of its type and id
SaveThenLoad(o, nr) ==
    LET sv == Entity_store(o, store)
    IN  IF sv.raised THEN sv
        ELSE from_store(objs, sv.store, o.kind, o.attrs.id, nr)

RoundTrip(o) ==
    \A nr \in {"null", "empty"} :
        /\ ~SaveThenLoad(o, nr).raised
        /\ attrs(SaveThenLoad(o, nr).obj) = attrs(o)
        /\ SaveThenLoad(o, nr).obj.rel = o.rel

C11_RoundTrip ==
    \A h \in AllUsed : ValidIds(objs[h].rel) => RoundTrip(objs[h])

(***************************************************************************)
(* C12. When refresh() has returned, the attribute mapping and the         *)
(* relationship list of the object are the ones decoded from its stored    *)
(* row, whatever they were before the call.                                *)
(***************************************************************************)
\* The ids a stored relationship field stands for, in order
Decode(field) ==
    IF field = <<>> THEN <<>>
    ELSE [i \in 1..Len(split(field)) |-> StrE(split(field)[i])]

\* The attribute mapping a stored row stands for
DecodedAttrs(row) ==
    [id |-> row.id, name |-> row.name,
     rel |-> [list |-> TRUE, none |-> FALSE, l |-> Decode(row.rel), s |-> <<>>]]

RefreshReturned == last.op = "refresh" /\ ~last.raised

C12_RefreshReplaces ==
    RefreshReturned =>
        /\ HasRow(store, After.kind, After.attrs.id)
        /\ RowOf(store, After.kind, After.attrs.id)
              = RowOf(last.store, Before.kind, Before.attrs.id)
        /\ After.rel = Decode(RowOf(store, After.kind, After.attrs.id).rel)
        /\ attrs(After) = DecodedAttrs(RowOf(store, After.kind, After.attrs.id))

\* The list and the mapping in memory both differed from the stored row.
C12_Witness ==
    /\ RefreshReturned
    /\ Before.rel # After.rel
    /\ attrs(Before).name # attrs(After).name

(***************************************************************************)
(* C13. P.add_to_group(G) changes G's stored row and leaves every other    *)
(* in-memory object, the caller's G among them, as it was; G.members shows *)
(* P's id once G.refresh() has run. The same for G.add_member(P) and the   *)
(* caller's P.                                                             *)
(***************************************************************************)
ActiveAddOfRecord ==
    /\ last.op \in AddOps
    /\ last.establish
    /\ last.arg.form = "obj"
    /\ ~last.raised

\* The stored row of the record that was passed
PeerRow(st) == RowOf(st, PeerKind(After.kind), IdOf(last.arg.h))

C13_SyncByRefetch ==
    ActiveAddOfRecord =>
        /\ \A g \in Handles \ {last.h} : objs[g] = last.objs[g]
        /\ HasRow(store, PeerKind(After.kind), IdOf(last.arg.h))
        /\ IdOf(last.h) \in RowIds(PeerRow(store).rel)
        /\ Has(refresh(objs, last.arg.h, store, NullRepr).obj.rel, IdOf(last.h))

\* The add wrote the initiator's id into the peer's row, and the caller's
\* peer object does not show it.
C13_Witness ==
    /\ ActiveAddOfRecord
    /\ HasRow(last.store, PeerKind(After.kind), IdOf(last.arg.h))
    /\ IdOf(last.h) \notin RowIds(PeerRow(last.store).rel)
    /\ IdOf(last.h) \in RowIds(PeerRow(store).rel)
    /\ ~Has(objs[last.arg.h].rel, IdOf(last.h))

(***************************************************************************)
(* C14. Two callers run P1.add_to_group(G) and P2.add_to_group(G) with     *)
(* their Store calls interleaved. Both calls can have returned with G's    *)
(* stored members lacking the id of a Person whose stored groups holds G's *)
(* id; it happens only when a caller wrote G's row over a row that had     *)
(* changed since that caller read it. A call that returned has put G's id  *)
(* into its own Person's row.                                              *)
(***************************************************************************)
BothReturned ==
    \A t \in Threads : calls[t].pc = "idle" /\ calls[t].ncalls >= 1

LostUpdate == \E t \in Threads : HalfLinked(store, t)

C14_LostUpdate ==
    /\ \A t \in Threads :
          calls[t].ncalls >= 1 =>
              IdOf(GroupHandle)
                  \in RowIds(RowOf(store, "person", IdOf(CallerHandle(t))).rel)
    /\ (BothReturned /\ LostUpdate) => \E t \in Threads : calls[t].clobbered

\* Both calls have returned and an update is lost.
C14_Witness == BothReturned /\ LostUpdate

(***************************************************************************)
(* C15. An add ends after a bounded number of Store calls and goes one hop *)
(* only: an active add that returned wrote its own row and then, for each  *)
(* id of its list in order, loaded that peer and wrote that peer's row     *)
(* once, nothing else; one that raised made a prefix of those calls. An    *)
(* add with the propagation flag off makes at most the write of its own    *)
(* row and leaves every other row and every other object as it was.        *)
(***************************************************************************)
\* The Store calls of the loop over the list: per id the persist of the
\* load and the overwrite of the passive add
RECURSIVE PeerCalls(_, _)
PeerCalls(list, kind) ==
    IF list = <<>> THEN <<>>
    ELSE <<[call |-> "persist", kind |-> kind, id |-> Head(list).s],
           [call |-> "overwrite", kind |-> kind, id |-> Head(list).s]>>
             \o PeerCalls(Tail(list), kind)

OwnCall(o) == <<[call |-> "overwrite", kind |-> o.kind, id |-> o.attrs.id]>>

IsPrefix(a, b) == Len(a) <= Len(b) /\ a = SubSeq(b, 1, Len(a))

\* The rows of records other than o
OtherRows(st, o) == {r \in st : ~(r.kind = o.kind /\ r.id = o.attrs.id)}

C15_OneHop ==
    (last.op \in AddOps) =>
        /\ \A g \in Handles \ {last.h} : objs[g] = last.objs[g]
        /\ last.establish =>
              /\ IsPrefix(last.log,
                          OwnCall(After) \o PeerCalls(After.rel, PeerKind(After.kind)))
              /\ ~last.raised =>
                    last.log = OwnCall(After)
                                 \o PeerCalls(After.rel, PeerKind(After.kind))
        /\ ~last.establish =>
              /\ IsPrefix(last.log, OwnCall(After))
              /\ OtherRows(store, After) = OtherRows(last.store, After)

\* An active add over a list of two ids returned: two passive adds.
C15_Witness ==
    /\ last.op \in AddOps
    /\ last.establish
    /\ ~last.raised
    /\ Len(After.rel) = 2
    /\ Len(last.log) = 5

(***************************************************************************)
(* C16. An active add writes its own row, with the passed Group's id in    *)
(* it, before it reads or writes any peer row; between that write and the  *)
(* peer's write the stored pair is half linked, and a caller that stops    *)
(* there leaves it half linked.                                            *)
(***************************************************************************)
InsideAdd(t) == calls[t].pc \in {"fetch", "construct", "passive", "crashed"}

\* The Store calls of the caller's add so far: the own row first, then
\* group rows only
OwnWriteFirst(t) ==
    calls[t].log # <<>> =>
        /\ calls[t].log[1] = [call |-> "overwrite", kind |-> "person",
                              id |-> IdOf(CallerHandle(t))]
        /\ \A i \in 2..Len(calls[t].log) : calls[t].log[i].kind = "group"

C16_OwnWriteBeforePeer ==
    \A t \in Threads :
        /\ OwnWriteFirst(t)
        /\ InsideAdd(t) =>
              /\ calls[t].log # <<>>
              /\ IdOf(GroupHandle)
                    \in RowIds(RowOf(store, "person", IdOf(CallerHandle(t))).rel)
        /\ (calls[t].pc = "crashed" /\ calls[t].open) => HalfLinked(store, t)

\* A caller stopped with the pair half linked, the other caller has since
\* returned, and the pair is still half linked.
C16_Witness ==
    \E t \in Threads :
        /\ calls[t].pc = "crashed"
        /\ calls[t].open
        /\ HalfLinked(store, t)
        /\ \E o \in Threads \ {t} : calls[o].pc = "idle" /\ calls[o].ncalls >= 1

(***************************************************************************)
(* C17. When an active add has returned, the stored row of every peer in   *)
(* the initiator's list holds the initiator's id: of the peers that were   *)
(* in the list before the call as of the one just added, and of a peer     *)
(* whose own side had removed the initiator. The add returns whenever its  *)
(* own row and the rows of all ids of its list exist.                      *)
(***************************************************************************)
ActiveAdd == last.op \in AddOps /\ last.establish

\* Every element of the list is the id of a stored peer
AllStored(st, o) ==
    \A i \in 1..Len(o.rel) :
        o.rel[i].tag = "str" /\ HasRow(st, PeerKind(o.kind), o.rel[i].s)

C17_PropagatesToAll ==
    ActiveAdd =>
        /\ (AllStored(last.store, After)
               /\ HasRow(last.store, Before.kind, Before.attrs.id))
              => ~last.raised
        /\ ~last.raised =>
              /\ AllStored(store, After)
              /\ \A i \in 1..Len(After.rel) :
                    IdOf(last.h)
                        \in RowIds(RowOf(store, PeerKind(After.kind),
                                         After.rel[i].s).rel)

\* The peer was in the initiator's list before the add, the peer's side
\* had removed the initiator in the call before, and the add brought the
\* initiator back into the peer's row.
C17_Witness ==
    /\ ActiveAdd
    /\ ~last.raised
    /\ last.prev.op \in RemoveOps
    /\ ~last.prev.raised
    /\ last.prev.arg = StrA(IdOf(last.h))
    /\ Has(Before.rel, IdOf(last.prev.h))
    /\ HasRow(last.store, PeerKind(Before.kind), IdOf(last.prev.h))
    /\ IdOf(last.h)
          \notin RowIds(RowOf(last.store, PeerKind(Before.kind),
                              IdOf(last.prev.h)).rel)
    /\ IdOf(last.h)
          \in RowIds(RowOf(store, PeerKind(Before.kind), IdOf(last.prev.h)).rel)

(***************************************************************************)
(* C18. A Person or Group constructor with the store flag on that returns  *)
(* has made one Store call, the persist of its row, and the row carries    *)
(* the serialized ids of the normalized relationship argument; with the    *)
(* store flag off the constructor makes no Store call; a constructor that  *)
(* raises has written nothing.                                             *)
(***************************************************************************)
\* For a constructor the flag of the call record is the store flag
Constructor == last.op = "new"

C18_PersistAfterNormalize ==
    Constructor =>
        /\ After.used <=> ~last.raised
        /\ (last.establish /\ ~last.raised) =>
              /\ last.log = <<[call |-> "persist", kind |-> After.kind,
                               id |-> After.attrs.id]>>
              /\ After.rel = _add(last.objs, <<>>, last.arg)
              /\ After.attrs.rel = AliasV
              /\ store = Put(last.store,
                             [kind |-> After.kind, id |-> After.attrs.id,
                              name |-> After.attrs.name,
                              rel |-> Serialize(After.rel)])
        /\ (~last.establish \/ last.raised) =>
              /\ last.log = <<>>
              /\ store = last.store
        /\ ~last.establish => ~last.raised

\* A constructor with the store flag on and a relationship argument
\* persisted a row with a non-empty relationship field.
C18_Witness ==
    /\ Constructor
    /\ last.establish
    /\ ~last.raised
    /\ After.rel # <<>>
    /\ RowOf(store, After.kind, After.attrs.id).rel = Serialize(After.rel)

(***************************************************************************)
(* C19. In every reachable state the entry of the attribute mapping under  *)
(* "groups" / "members" equals the relationship list of the object.        *)
(***************************************************************************)
C19_AttrIsList ==
    \A h \in AllUsed :
        attrs(objs[h]).rel
            = [list |-> TRUE, none |-> FALSE, l |-> objs[h].rel, s |-> <<>>]

(***************************************************************************)
(* C20. update_attributes with a value whose type is outside the allowed   *)
(* scalar types raises before anything changes: the object is as it was,   *)
(* the valid keywords of the same call included, and no Store call is      *)
(* made.                                                                   *)
(***************************************************************************)
UpdateWithBadType ==
    /\ last.op = "update_attributes"
    /\ \E i \in 1..Len(last.kwargs) : last.kwargs[i].type \notin ALLOWED_TYPES

C20_BadTypeRaises ==
    UpdateWithBadType =>
        /\ last.raised
        /\ After = Before
        /\ last.log = <<>>
        /\ store = last.store
====
